---- MODULE Spec2Model ----
(***************************************************************************)
(* Model of freethrows.py: a Streamlit report script that loads three CSV  *)
(* tables, joins them on trial_id, and renders a fixed sequence of report  *)
(* sections.  One run of the script is a walk of pc through the sections;  *)
(* an exception raised in a section ends the run (Streamlit stops the      *)
(* script at the first uncaught exception).                                *)
(*                                                                         *)
(* Numbers are integers.  A mean is the exact rational [num, den]; the     *)
(* mean of an empty column (pandas: NaN) is the record with den = 0.       *)
(* The CSV files are not part of the repository: the column split between  *)
(* participants.csv and durations.csv follows the interface section of the *)
(* specification.  Of the landmark columns the four bilateral x pairs    *)
(* of the symmetry features are carried.                                   *)
(***************************************************************************)
EXTENDS Integers, Sequences, FiniteSets, TLC

\* Largest number of tracking frames one trial has in the modelled data sets.
MaxFrames == 2

\* Bounds of the time range of the trial time-series lookup.
TimeLow == 100
TimeHigh == 9000

TrialOrder == <<"T0001", "T0002", "T0003">>
Trials == {TrialOrder[i] : i \in 1..Len(TrialOrder)}
UnknownTrial == "T0999"
DefaultTrial == "T0002"
TrialInputs == Trials \cup {UnknownTrial}

Outcomes == {"made", "missed", "other"}
TimeValues == {50, 100, 200, 9000, 9500}

VARIABLES
    participants,      \* participants.csv as read
    durations,         \* durations.csv as read
    tracking,          \* tracking.csv as read
    df1,               \* trial-level join
    df,                \* frame-level join (rebound by the follow-through filter)
    pc,                \* next section of the script
    trial_id_to_plot,  \* content of the text input
    trial_data,        \* rows selected for the time-series plot
    shown,             \* value1..value3 of the st.text line
    bars,              \* the six group means of the bar charts
    test,              \* the Mann-Whitney summary
    kde,               \* the groups given to gaussian_kde
    pinky,             \* rows given to the pinky-offset plots
    boxes,             \* rows given to the two final box plots
    rendered,          \* report sections rendered so far, in order
    error              \* the uncaught exception that ended the run, or "none"

vars == <<participants, durations, tracking, df1, df, pc, trial_id_to_plot,
          trial_data, shown, bars, test, kde, pinky, boxes, rendered, error>>

----------------------------------------------------------------------------
(* The recorded data.  Per-trial values of the three-trial scenario.        *)

WindupOf(t) == CASE t = "T0001" -> 200 [] t = "T0002" -> 220 [] OTHER -> 190
FollowOf(t) == CASE t = "T0001" -> 150 [] t = "T0002" -> 300 [] OTHER -> 160
ReleaseHeightOf(t) == CASE t = "T0001" -> 21 [] t = "T0002" -> 23 [] OTHER -> 22
ReleaseTimeOf(t) == CASE t = "T0001" -> 100 [] t = "T0002" -> 200 [] OTHER -> 50
FollowTimeOf(t) == CASE t = "T0001" -> 200 [] t = "T0002" -> 9000 [] OTHER -> 100
SlopeOf(t) == CASE t = "T0001" -> 0 [] t = "T0002" -> 5 [] OTHER -> 0
XWristOf(t) == CASE t = "T0001" -> 3 [] t = "T0002" -> 7 [] OTHER -> 4
RHipAt(tm) == CASE tm = 50 -> 3 [] tm = 100 -> 4 [] tm = 200 -> 6 [] tm = 9000 -> 5 [] OTHER -> 7
LHipAt(tm) == 4
RAnkleAt(pose, tm) ==
    IF pose = "ankle_still" THEN 1
    ELSE CASE tm = 50 -> 2 [] tm = 100 -> 5 [] tm = 200 -> 3 [] tm = 9000 -> 6 [] OTHER -> 4
LAnkleAt(pose, tm) == IF pose = "ankle_still" THEN 1 ELSE 2
REyeAt(tm) == CASE tm = 50 -> 4 [] tm = 100 -> 3 [] tm = 200 -> 5 [] tm = 9000 -> 7 [] OTHER -> 3
LEyeAt(tm) == 3
REarAt(pose, tm) ==
    IF pose = "ear_still" THEN 2
    ELSE CASE tm = 50 -> 6 [] tm = 100 -> 2 [] tm = 200 -> 3 [] tm = 9000 -> 5 [] OTHER -> 2
LEarAt(pose, tm) == 2

\* Recordings: every landmark pair moving, or the ankles or the ears at rest.
Poses == {"moving", "ankle_still", "ear_still"}

ParticipantRow(t) == [trial_id |-> t, x_wrist |-> XWristOf(t)]

DurationRow(t, res) ==
    [trial_id |-> t, result |-> res,
     windup_duration |-> WindupOf(t),
     follow_through_duration |-> FollowOf(t),
     release_time |-> ReleaseTimeOf(t),
     release_height |-> ReleaseHeightOf(t),
     follow_through_time |-> FollowTimeOf(t),
     slope |-> SlopeOf(t)]

TrackingRow(t, tm, pose) ==
    [trial_id |-> t, time |-> tm,
     R_HIP_x |-> RHipAt(tm), L_HIP_x |-> LHipAt(tm),
     R_ANKLE_x |-> RAnkleAt(pose, tm), L_ANKLE_x |-> LAnkleAt(pose, tm),
     R_EYE_x |-> REyeAt(tm), L_EYE_x |-> LEyeAt(tm),
     R_EAR_x |-> REarAt(pose, tm), L_EAR_x |-> LEarAt(pose, tm)]

\* participants.csv with one row per trial of `present`, in trial order.
ParticipantsCsv(present) ==
    LET s == SelectSeq(TrialOrder, LAMBDA t : t \in present)
    IN  [i \in 1..Len(s) |-> ParticipantRow(s[i])]

\* durations.csv with one row per trial of `present`, in trial order.
DurationsCsv(present, res) ==
    LET s == SelectSeq(TrialOrder, LAMBDA t : t \in present)
    IN  [i \in 1..Len(s) |-> DurationRow(s[i], res[s[i]])]

RECURSIVE FramesFrom(_, _, _)
\* The frames of each trial, trial after trial, from the i-th trial on.
FramesFrom(fr, i, pose) ==
    IF i > Len(TrialOrder) THEN <<>>
    ELSE LET t == TrialOrder[i]
         IN  [k \in 1..Len(fr[t]) |-> TrackingRow(t, fr[t][k], pose)]
                 \o FramesFrom(fr, i + 1, pose)

\* Frame times of one trial: increasing, at most MaxFrames of them.
FrameTimes ==
    {s \in UNION {[1..n -> TimeValues] : n \in 0..MaxFrames} :
        \A i \in 1..Len(s) : \A j \in 1..Len(s) : i < j => s[i] < s[j]}

ScenarioResult == [t \in Trials |-> IF t = "T0002" THEN "missed" ELSE "made"]
\* tracking.csv holding the frame times fr[t] of each trial t.
TrackingCsv(fr, pose) == FramesFrom(fr, 1, pose)

WindowFrames == [t \in Trials |-> <<ReleaseTimeOf(t), FollowTimeOf(t)>>]
BaseFrames == [t \in Trials |-> IF t = "T0003" THEN <<100, 200>> ELSE <<100>>]

----------------------------------------------------------------------------
(* pandas operations *)

RECURSIVE MergeCross(_, _)
\* Mutant of Merge: the key comparison is lost, every left row meets every right row.
MergeCross(left, right) ==
    IF left = <<>> THEN <<>>
    ELSE [k \in 1..Len(right) |-> Head(left) @@ right[k]] \o MergeCross(Tail(left), right)

RECURSIVE Merge(_, _)
\* pd.merge(left, right, on="trial_id", how="inner")
Merge(left, right) ==
    IF left = <<>> THEN <<>>
    ELSE LET l == Head(left)
             m == SelectSeq(right, LAMBDA r : r.trial_id = l.trial_id)
         IN  [k \in 1..Len(m) |-> l @@ m[k]] \o Merge(Tail(left), right)

Column(table, c) == [i \in 1..Len(table) |-> table[i][c]]

RECURSIVE SumSeq(_)
SumSeq(s) == IF s = <<>> THEN 0 ELSE Head(s) + SumSeq(Tail(s))

\* Series.mean(): NaN (den = 0) for an empty column.
Mean(s) == [num |-> SumSeq(s), den |-> Len(s)]

\* df[df['result'] == outcome]
ResultIs(table, outcome) == SelectSeq(table, LAMBDA r : r.result = outcome)

----------------------------------------------------------------------------
\* Line 54: the rows of one trial inside the plotted time range.
TrialData(table, id) ==
    SelectSeq(table, LAMBDA r : r.trial_id = id /\ r.time >= TimeLow /\ r.time <= TimeHigh)

\* Lines 104-109: the six group means, taken over the rows of the frame table.
GroupMean(table, outcome, c) == Mean(Column(ResultIs(table, outcome), c))

\* scipy.stats.mannwhitneyu statistic of the first sample, doubled:
\* 2 per pair x > y, 1 per tie.
RECURSIVE PairScore(_, _)
PairScore(x, ys) ==
    IF ys = <<>> THEN 0
    ELSE (IF x > Head(ys) THEN 2 ELSE IF x = Head(ys) THEN 1 ELSE 0) + PairScore(x, Tail(ys))

RECURSIVE TwiceU(_, _)
TwiceU(xs, ys) == IF xs = <<>> THEN 0 ELSE PairScore(Head(xs), ys) + TwiceU(Tail(xs), ys)

Abs(x) == IF x < 0 THEN -x ELSE x

\* Line 241: the binary outcome code.
ShotOutcome(res) == IF res = "made" THEN 1 ELSE 0

\* Mutant of InFollowThrough: the upper bound is exclusive.
InFollowThroughStrict(r) == r.time >= r.release_time /\ r.time < r.follow_through_time

\* Lines 232-233: the follow-through window of the row's own trial.
InFollowThrough(r) == r.time >= r.release_time /\ r.time <= r.follow_through_time

\* Mutant of WithDerived: the outcome code is written over the result column.
WithDerivedOverwrite(r) ==
    [r EXCEPT !.result = IF r.result = "made" THEN "1" ELSE "0"]
        @@ [hip_symmetry_x |-> Abs(r.R_HIP_x - r.L_HIP_x),
          ankle_symmetry_x |-> Abs(r.R_ANKLE_x - r.L_ANKLE_x),
          eye_symmetry_x |-> Abs(r.R_EYE_x - r.L_EYE_x),
          ear_symmetry_x |-> Abs(r.R_EAR_x - r.L_EAR_x),
          shot_outcome |-> ShotOutcome(r.result)]

\* Lines 236-241: the derived columns of one retained row.
WithDerived(r) ==
    r @@ [hip_symmetry_x |-> Abs(r.R_HIP_x - r.L_HIP_x),
          ankle_symmetry_x |-> Abs(r.R_ANKLE_x - r.L_ANKLE_x),
          eye_symmetry_x |-> Abs(r.R_EYE_x - r.L_EYE_x),
          ear_symmetry_x |-> Abs(r.R_EAR_x - r.L_EAR_x),
          shot_outcome |-> ShotOutcome(r.result)]

\* Lines 232-241: the frame table after the filter, with the derived columns.
FollowThroughData(table) ==
    LET kept == SelectSeq(table, InFollowThrough)
    IN  [i \in 1..Len(kept) |-> WithDerived(kept[i])]

\* df.groupby('shot_outcome'): the group of one outcome code.
OutcomeGroup(table, code) == SelectSeq(table, LAMBDA r : r.shot_outcome = code)

\* Lines 270-273: the features of the four panels, in the order of the calls.
KdeFeatures == <<"hip_symmetry_x", "ankle_symmetry_x", "eye_symmetry_x", "ear_symmetry_x">>

\* Line 246: gaussian_kde(group[feature]) raises ValueError on fewer than two
\* points and LinAlgError on a singular covariance (all values equal).
KdeRaises(group, feature) ==
    IF Len(group) < 2 THEN "ValueError"
    ELSE IF \A i \in 1..Len(group) : group[i][feature] = group[1][feature] THEN "LinAlgError"
    ELSE "none"

\* Lines 244-248: one panel; groupby yields only the non-empty groups, code 0
\* before code 1.
PanelError(table, feature) ==
    LET g0 == OutcomeGroup(table, 0)
        g1 == OutcomeGroup(table, 1)
    IN  IF g0 # <<>> /\ KdeRaises(g0, feature) # "none" THEN KdeRaises(g0, feature)
        ELSE IF g1 # <<>> THEN KdeRaises(g1, feature)
        ELSE "none"

RECURSIVE PanelsFrom(_, _)
\* Lines 270-273: the first exception of the panels from the k-th on.
PanelsFrom(table, k) ==
    IF k > Len(KdeFeatures) THEN "none"
    ELSE IF PanelError(table, KdeFeatures[k]) # "none" THEN PanelError(table, KdeFeatures[k])
    ELSE PanelsFrom(table, k + 1)

KdeError(table) == PanelsFrom(table, 1)

----------------------------------------------------------------------------
NoText == [windup |-> -1, follow |-> -1, result |-> "none"]
NoMean == [num |-> 0, den |-> 0]
NoBars == [follow_through_duration_made |-> NoMean, follow_through_duration_missed |-> NoMean,
           wind_up_duration_made |-> NoMean, wind_up_duration_missed |-> NoMean,
           release_height_made |-> NoMean, release_height_missed |-> NoMean,
           drawn |-> FALSE]
NoTest == [ran |-> FALSE, n1 |-> 0, n2 |-> 0, u2 |-> 0, nan |-> FALSE]
NoKde == [drawn |-> FALSE, made |-> <<>>, missed |-> <<>>]
NoError == [kind |-> "none", at |-> "none"]

ScriptStart ==
    /\ df1 = <<>>
    /\ df = <<>>
    /\ pc = "load"
    /\ trial_id_to_plot = DefaultTrial
    /\ trial_data = <<>>
    /\ shown = NoText
    /\ bars = NoBars
    /\ test = NoTest
    /\ kde = NoKde
    /\ pinky = <<>>
    /\ boxes = <<>>
    /\ rendered = <<>>
    /\ error = NoError

\* Data sets in which trials are missing from some of the three sources.
InitJoin ==
    \E pset \in SUBSET Trials, dset \in SUBSET Trials, tset \in SUBSET Trials, pose \in Poses :
        /\ participants = ParticipantsCsv(pset)
        /\ durations = DurationsCsv(dset, ScenarioResult)
        /\ tracking = TrackingCsv([t \in Trials |-> IF t \in tset THEN BaseFrames[t] ELSE <<>>], pose)

\* Data sets in which the frames of each trial vary.
InitFrames ==
    \E fr \in [Trials -> FrameTimes] :
        /\ participants = ParticipantsCsv(Trials)
        /\ durations = DurationsCsv(Trials, ScenarioResult)
        /\ tracking = TrackingCsv(fr, "moving")

\* Data sets in which the result column varies.
InitOutcome ==
    \E res \in [Trials -> Outcomes], long \in SUBSET Trials, pose \in Poses :
        /\ participants = ParticipantsCsv(Trials)
        /\ durations = DurationsCsv(Trials, res)
        /\ tracking = TrackingCsv([t \in Trials |-> IF t \in long THEN <<100, 200>> ELSE <<100>>], pose)

\* Data sets in which the recording varies: each trial has no frame or the two
\* frames at the ends of its follow-through window.
InitPose ==
    \E tset \in SUBSET Trials, pose \in Poses :
        /\ participants = ParticipantsCsv(Trials)
        /\ durations = DurationsCsv(Trials, ScenarioResult)
        /\ tracking = TrackingCsv([t \in Trials |-> IF t \in tset THEN WindowFrames[t] ELSE <<>>], pose)

Init == (InitJoin \/ InitFrames \/ InitOutcome \/ InitPose) /\ ScriptStart

Crash(kind, section) ==
    /\ error' = [kind |-> kind, at |-> section]
    /\ pc' = "crashed"

\* Lines 32-37: read the three CSV files and join them.
Load ==
    /\ pc = "load"
    /\ df1' = Merge(participants, durations)
    /\ df' = Merge(Merge(participants, durations), tracking)
    /\ pc' = "trial"
    /\ UNCHANGED <<participants, durations, tracking, trial_id_to_plot, trial_data,
                   shown, bars, test, kde, pinky, boxes, rendered, error>>

\* Lines 52-101: the text input, the lookup, the text line and the time series.
\* .iloc[0] on an empty selection raises IndexError at line 55.
TrialSection ==
    /\ pc = "trial"
    /\ \E id \in TrialInputs :
        /\ trial_id_to_plot' = id
        /\ trial_data' = TrialData(df, id)
        /\ IF TrialData(df, id) = <<>>
           THEN /\ Crash("IndexError", "trial")
                /\ UNCHANGED <<shown, rendered>>
           ELSE /\ shown' = [windup |-> TrialData(df, id)[1].windup_duration,
                             follow |-> TrialData(df, id)[1].follow_through_duration,
                             result |-> TrialData(df, id)[1].result]
                /\ rendered' = Append(rendered, "trial")
                /\ pc' = "bars"
                /\ UNCHANGED error
    /\ UNCHANGED <<participants, durations, tracking, df1, df, bars, test, kde,
                   pinky, boxes>>

\* Lines 104-151: the group means and the three bar charts.
BarCharts ==
    /\ pc = "bars"
    /\ bars' = [follow_through_duration_made |-> GroupMean(df, "made", "follow_through_duration"),
                follow_through_duration_missed |-> GroupMean(df, "missed", "follow_through_duration"),
                wind_up_duration_made |-> GroupMean(df, "made", "windup_duration"),
                wind_up_duration_missed |-> GroupMean(df, "missed", "windup_duration"),
                release_height_made |-> GroupMean(df, "made", "release_height"),
                release_height_missed |-> GroupMean(df, "missed", "release_height"),
                drawn |-> TRUE]
    /\ rendered' = Append(rendered, "bars")
    /\ pc' = "wrist"
    /\ UNCHANGED <<participants, durations, tracking, df1, df, trial_id_to_plot,
                   trial_data, shown, test, kde, pinky, boxes, error>>

\* Lines 172-204: the violin plot, then the Mann-Whitney summary.  On an empty
\* sample mannwhitneyu raises ValueError or returns NaN, depending on the
\* installed SciPy; the NaN goes through z and r into the displayed text.
WristStability ==
    /\ pc = "wrist"
    /\ LET made_data == Column(ResultIs(df, "made"), "slope")
           missed_data == Column(ResultIs(df, "missed"), "slope")
           n1 == Len(made_data)
           n2 == Len(missed_data)
           summary(isnan) == [ran |-> TRUE, n1 |-> n1, n2 |-> n2,
                              u2 |-> IF isnan THEN 0 ELSE TwiceU(made_data, missed_data),
                              nan |-> isnan]
       IN  IF n1 = 0 \/ n2 = 0
           THEN \/ /\ Crash("ValueError", "test")
                   /\ rendered' = Append(rendered, "violin")
                   /\ UNCHANGED test
                \/ /\ test' = summary(TRUE)
                   /\ rendered' = Append(Append(rendered, "violin"), "test")
                   /\ pc' = "filter"
                   /\ UNCHANGED error
           ELSE /\ test' = summary(FALSE)
                /\ rendered' = Append(Append(rendered, "violin"), "test")
                /\ pc' = "filter"
                /\ UNCHANGED error
    /\ UNCHANGED <<participants, durations, tracking, df1, df, trial_id_to_plot,
                   trial_data, shown, bars, kde, pinky, boxes>>

\* Lines 232-241: df is rebound to its follow-through rows, with derived columns.
FollowThrough ==
    /\ pc = "filter"
    /\ df' = FollowThroughData(df)
    /\ pc' = "kde"
    /\ UNCHANGED <<participants, durations, tracking, df1, trial_id_to_plot, trial_data,
                   shown, bars, test, kde, pinky, boxes, rendered, error>>

\* Lines 244-290: the density panels, one gaussian_kde per outcome group.
KdePanels ==
    /\ pc = "kde"
    /\ IF KdeError(df) # "none"
       THEN /\ Crash(KdeError(df), "kde")
            /\ UNCHANGED <<kde, rendered>>
       ELSE /\ kde' = [drawn |-> TRUE, made |-> OutcomeGroup(df, 1),
                       missed |-> OutcomeGroup(df, 0)]
            /\ rendered' = Append(rendered, "kde")
            /\ pc' = "pinky"
            /\ UNCHANGED error
    /\ UNCHANGED <<participants, durations, tracking, df1, df, trial_id_to_plot,
                   trial_data, shown, bars, test, pinky, boxes>>

\* Lines 308-323: the pinky-offset box plot and scatter plot, drawn from df.
PinkyPlots ==
    /\ pc = "pinky"
    /\ pinky' = df
    /\ rendered' = Append(rendered, "pinky")
    /\ pc' = "boxes"
    /\ UNCHANGED <<participants, durations, tracking, df1, df, trial_id_to_plot,
                   trial_data, shown, bars, test, kde, boxes, error>>

\* Lines 346-379: the two final box plots, drawn from df1.
FinalBoxPlots ==
    /\ pc = "boxes"
    /\ boxes' = df1
    /\ rendered' = Append(rendered, "boxes")
    /\ pc' = "done"
    /\ UNCHANGED <<participants, durations, tracking, df1, df, trial_id_to_plot,
                   trial_data, shown, bars, test, kde, pinky, error>>

\* Streamlit runs the script again from the top when the input changes.
Rerun ==
    /\ pc \in {"done", "crashed"}
    /\ df1' = <<>>
    /\ df' = <<>>
    /\ pc' = "load"
    /\ trial_id_to_plot' = DefaultTrial
    /\ trial_data' = <<>>
    /\ shown' = NoText
    /\ bars' = NoBars
    /\ test' = NoTest
    /\ kde' = NoKde
    /\ pinky' = <<>>
    /\ boxes' = <<>>
    /\ rendered' = <<>>
    /\ error' = NoError
    /\ UNCHANGED <<participants, durations, tracking>>

Next ==
    \/ Load
    \/ TrialSection
    \/ BarCharts
    \/ WristStability
    \/ FollowThrough
    \/ KdePanels
    \/ PinkyPlots
    \/ FinalBoxPlots
    \/ Rerun

Spec == Init /\ [][Next]_vars

----------------------------------------------------------------------------
(* Vocabulary of the properties, stated over the three source tables.       *)

InSource(table, t) == \E i \in 1..Len(table) : table[i].trial_id = t

\* The trials that occur in all three sources.
JoinedTrials ==
    {t \in Trials : InSource(participants, t) /\ InSource(durations, t) /\ InSource(tracking, t)}

DurationOf(t) == durations[CHOOSE i \in 1..Len(durations) : durations[i].trial_id = t]
ParticipantOf(t) == participants[CHOOSE i \in 1..Len(participants) : participants[i].trial_id = t]

\* The mean of column c over the joined trials of one outcome, each counted once.
TrialMean(outcome, c) ==
    Mean(Column(SelectSeq(durations,
                          LAMBDA d : d.trial_id \in JoinedTrials /\ d.result = outcome), c))

\* Two means agree: both not-a-number, or equal as rationals.
IsNaN(m) == m.den = 0
RatEq(a, b) == a.den # 0 /\ b.den # 0 /\ a.num * b.den = b.num * a.den
SameMean(a, b) == (IsNaN(a) /\ IsNaN(b)) \/ RatEq(a, b)

TrialCount(outcome) == Cardinality({t \in JoinedTrials : DurationOf(t).result = outcome})

SectionOrder == <<"trial", "bars", "violin", "test", "kde", "pinky", "boxes">>
Position(sec) == CHOOSE i \in 1..Len(SectionOrder) : SectionOrder[i] = sec
IsRendered(sec) == \E i \in 1..Len(rendered) : rendered[i] = sec

\* The lookup of the entered trial has been executed in this run.
LookupDone == pc \notin {"load", "trial"}
LookupCrashed == pc = "crashed" /\ error.at = "trial"

\* The frames of tracking.csv that belong to a joined trial and lie in its window.
FollowThroughFrames ==
    SelectSeq(tracking,
              LAMBDA f : /\ f.trial_id \in JoinedTrials
                         /\ f.time >= DurationOf(f.trial_id).release_time
                         /\ f.time <= DurationOf(f.trial_id).follow_through_time)

Key(r) == <<r.trial_id, r.time>>
Keys(table) == {Key(table[i]) : i \in 1..Len(table)}

\* df has been rebound to the follow-through rows.
AfterFilter == pc \in {"kde", "pinky", "boxes", "done"} \/ (pc = "crashed" /\ error.at = "kde")

LoadedColumns ==
    {"trial_id", "x_wrist", "result", "windup_duration", "follow_through_duration",
     "release_time", "release_height", "follow_through_time", "slope", "time",
     "R_HIP_x", "L_HIP_x", "R_ANKLE_x", "L_ANKLE_x", "R_EYE_x", "L_EYE_x",
     "R_EAR_x", "L_EAR_x"}
Loaded(r) == [c \in LoadedColumns |-> r[c]]

RECURSIVE IsSubseq(_, _)
\* a is b with some rows left out.
IsSubseq(a, b) ==
    IF a = <<>> THEN TRUE
    ELSE IF b = <<>> THEN FALSE
    ELSE IF Head(a) = Head(b) THEN IsSubseq(Tail(a), Tail(b))
    ELSE IsSubseq(a, Tail(b))

LoadedRows(table) == [i \in 1..Len(table) |-> Loaded(table[i])]

----------------------------------------------------------------------------
\* C1: the made/missed means of the three bar-chart metrics are means over
\* trials, each joined trial counted once whatever its number of frames.
C1_TrialLevelMeans ==
    bars.drawn =>
        /\ SameMean(bars.follow_through_duration_made, TrialMean("made", "follow_through_duration"))
        /\ SameMean(bars.follow_through_duration_missed, TrialMean("missed", "follow_through_duration"))
        /\ SameMean(bars.wind_up_duration_made, TrialMean("made", "windup_duration"))
        /\ SameMean(bars.wind_up_duration_missed, TrialMean("missed", "windup_duration"))
        /\ SameMean(bars.release_height_made, TrialMean("made", "release_height"))
        /\ SameMean(bars.release_height_missed, TrialMean("missed", "release_height"))

\* C2: entering a trial identifier that is not in the joined table never ends
\* the lookup in an unhandled crash.
C2_NotFoundIsHandled ==
    (LookupDone /\ trial_id_to_plot \notin JoinedTrials) => ~LookupCrashed

\* C3: entering a trial that is in the joined table but has no frame with
\* 100 <= time <= 9000 never ends the lookup in an unhandled crash.
C3_NoDataInRangeIsHandled ==
    (/\ LookupDone
     /\ trial_id_to_plot \in JoinedTrials
     /\ \A i \in 1..Len(tracking) :
            tracking[i].trial_id = trial_id_to_plot =>
                (tracking[i].time < TimeLow \/ tracking[i].time > TimeHigh))
        => ~LookupCrashed

\* C4: when a section fails, every section after it in the fixed order is
\* still rendered in the same run.
C4_FailureConfined ==
    pc = "crashed" =>
        \A i \in 1..Len(SectionOrder) :
            i > Position(error.at) => IsRendered(SectionOrder[i])

\* C5: the two samples of the Mann-Whitney test hold one slope value per
\* trial: n1 is the number of made trials and n2 the number of missed trials.
C5_OneSlopePerTrial ==
    test.ran => (test.n1 = TrialCount("made") /\ test.n2 = TrialCount("missed"))

\* C6: made and missed partition the trials, and the bar-chart grouping and
\* the KDE grouping put every row in the same group, whatever the result value.
C6_GroupingAgrees ==
    /\ pc # "load" =>
          Len(ResultIs(df1, "made")) + Len(ResultIs(df1, "missed")) = Len(df1)
    /\ kde.drawn =>
          /\ \A i \in 1..Len(kde.made) : kde.made[i].result = "made"
          /\ \A i \in 1..Len(kde.missed) : kde.missed[i].result = "missed"

\* C7: after the load the joined table has rows for a trial exactly when the
\* trial occurs in all three sources, no error is raised for a dropped trial,
\* and a lookup returns rows (and displays text) carrying the trial's own
\* values from the source tables.
C7_JoinCorrect ==
    /\ pc = "trial" =>
          /\ error = NoError
          /\ \A t \in Trials : InSource(df, t) <=> t \in JoinedTrials
          /\ \A t \in Trials :
                InSource(df1, t) <=> (InSource(participants, t) /\ InSource(durations, t))
    /\ IsRendered("trial") =>
          /\ trial_id_to_plot \in JoinedTrials
          /\ \A i \in 1..Len(trial_data) :
                /\ trial_data[i].trial_id = trial_id_to_plot
                /\ trial_data[i].windup_duration = DurationOf(trial_id_to_plot).windup_duration
                /\ trial_data[i].follow_through_duration =
                       DurationOf(trial_id_to_plot).follow_through_duration
                /\ trial_data[i].result = DurationOf(trial_id_to_plot).result
                /\ trial_data[i].x_wrist = ParticipantOf(trial_id_to_plot).x_wrist
                /\ \E k \in 1..Len(tracking) : Key(tracking[k]) = Key(trial_data[i])
          /\ shown = [windup |-> DurationOf(trial_id_to_plot).windup_duration,
                      follow |-> DurationOf(trial_id_to_plot).follow_through_duration,
                      result |-> DurationOf(trial_id_to_plot).result]

\* A lookup succeeded on a data set that lacks a trial in one source only.
C7_Witness ==
    /\ pc = "bars"
    /\ trial_id_to_plot = "T0003"
    /\ ~InSource(durations, "T0001")
    /\ InSource(participants, "T0001")
    /\ InSource(tracking, "T0001")
    /\ Len(trial_data) = 2

\* C8: with an empty made or missed sample the statistical step never goes
\* on to display a summary (whose U, z and r are then not-a-number).
C8_EmptySampleFails ==
    test.ran => (test.n1 > 0 /\ test.n2 > 0 /\ ~test.nan)

\* C9: after the follow-through filter the frame table holds exactly the
\* joined frames with release_time <= time <= follow_through_time of their
\* own trial, and the KDE panels and pinky-offset plots draw only such rows.
C9_FollowThroughExact ==
    /\ AfterFilter =>
          /\ Keys(df) = Keys(FollowThroughFrames)
          /\ Len(df) = Len(FollowThroughFrames)
          /\ \A i \in 1..Len(df) :
                /\ df[i].hip_symmetry_x = Abs(df[i].R_HIP_x - df[i].L_HIP_x)
                /\ df[i].ankle_symmetry_x = Abs(df[i].R_ANKLE_x - df[i].L_ANKLE_x)
                /\ df[i].eye_symmetry_x = Abs(df[i].R_EYE_x - df[i].L_EYE_x)
                /\ df[i].ear_symmetry_x = Abs(df[i].R_EAR_x - df[i].L_EAR_x)
                /\ df[i].release_time = DurationOf(df[i].trial_id).release_time
                /\ df[i].follow_through_time = DurationOf(df[i].trial_id).follow_through_time
    /\ kde.drawn =>
          /\ Keys(kde.made) \cup Keys(kde.missed) = Keys(FollowThroughFrames)
          /\ Len(kde.made) + Len(kde.missed) = Len(FollowThroughFrames)
    /\ IsRendered("pinky") =>
          /\ Keys(pinky) = Keys(FollowThroughFrames)
          /\ Len(pinky) = Len(FollowThroughFrames)

\* The plots after the filter were drawn from a table that kept rows on both
\* ends of a window and lost rows outside it.
C9_Witness ==
    /\ pc = "done"
    /\ \E i \in 1..Len(pinky) : pinky[i].time = pinky[i].release_time
    /\ \E i \in 1..Len(pinky) : pinky[i].time = pinky[i].follow_through_time
    /\ Len(pinky) < Len(tracking)
    /\ Len(kde.made) > 0 /\ Len(kde.missed) > 0

\* C10 as claimed: after the load no step of the run removes a row from df1
\* or df or changes the value of a loaded column.
C10_TablesReadOnly ==
    [][(pc # "load" /\ pc' # "load") =>
          /\ df1' = df1
          /\ LoadedRows(df') = LoadedRows(df)]_vars

\* C10 as amended: df1 is never changed after the load; df is unchanged by
\* every step but the follow-through filter, which replaces it by a selection
\* of its rows, in order, with every loaded column value kept.
C10_ReadOnlyButFilter ==
    [][(pc # "load" /\ pc' # "load") =>
          /\ df1' = df1
          /\ pc # "filter" => df' = df
          /\ pc = "filter" => IsSubseq(LoadedRows(df'), LoadedRows(df))]_vars

\* The filter has removed rows and kept others, and df1 is still the join.
C10_Witness ==
    /\ pc = "done"
    /\ Len(df) > 0
    /\ Len(df) < Len(tracking)
    /\ JoinedTrials = Trials
    /\ Len(df1) = Cardinality(Trials)
    /\ boxes = df1
====
